---------------------------- MODULE Spec2Model ----------------------------
(***************************************************************************)
(* A model of pdf-mergery's merge engine (src-tauri/src/lib.rs):           *)
(* merge_pdfs scans a directory, orders the candidate files by             *)
(* modification time, loads every document, copies every object of every   *)
(* document into a merged object table under freshly allocated ids,        *)
(* rewrites the references, builds one Pages node and one Catalog, and     *)
(* saves the result next to the directory.                                 *)
(***************************************************************************)
EXTENDS Integers, Sequences, FiniteSets, TLC

(***************************************************************************)
(* Bounds of the model.                                                    *)
(***************************************************************************)
\* Most directory entries of a directory holding several files.
MaxFiles == 2
\* Source documents of the single-file directories use the object numbers
\* 1..MaxNum; references may also name MaxNum + 1, which no document defines.
MaxNum == 2
\* Deepest nesting of the objects update_references is applied to on its own.
MaxDepth == 2

(***************************************************************************)
(* lopdf's data model: ObjectId = (u32, u16), Object is a tagged union.    *)
(* A dictionary is a function from its keys to Objects.                    *)
(***************************************************************************)
EmptyFcn == [x \in {} |-> x]

Null == [tag |-> "Null"]
Boolean(b) == [tag |-> "Boolean", bool |-> b]
Integer(n) == [tag |-> "Integer", int |-> n]
Real(n) == [tag |-> "Real", real |-> n]
String(s) == [tag |-> "String", bytes |-> s]
Name(s) == [tag |-> "Name", name |-> s]
Array(items) == [tag |-> "Array", items |-> items]
Dictionary(d) == [tag |-> "Dictionary", dict |-> d]
Stream(d, content) == [tag |-> "Stream", dict |-> d, content |-> content]
Reference(id) == [tag |-> "Reference", id |-> id]

\* Dictionary::set and BTreeMap::insert: replace the entry or add it.
Insert(f, k, v) == [x \in DOMAIN f \cup {k} |-> IF x = k THEN v ELSE f[x]]

\* Ord of ObjectId: the tuple order, object number first, then generation.
IdLess(a, b) == a[1] < b[1] \/ (a[1] = b[1] /\ a[2] < b[2])

\* The keys of a BTreeMap<ObjectId, _> in iteration order.
RECURSIVE SortedKeys(_)
SortedKeys(S) ==
    IF S = {} THEN << >>
    ELSE LET m == CHOOSE x \in S : \A y \in S : y = x \/ IdLess(x, y)
         IN  <<m>> \o SortedKeys(S \ {m})

(***************************************************************************)
(* update_references (lib.rs 148-172).                                     *)
(***************************************************************************)
RECURSIVE UpdateReferencesNoStream(_, _)
UpdateReferencesNoStream(object, id_map) ==
    CASE object.tag = "Reference" ->
            IF object.id \in DOMAIN id_map
            THEN Reference(id_map[object.id]) ELSE object
      [] object.tag = "Dictionary" ->
            Dictionary([k \in DOMAIN object.dict |->
                          UpdateReferencesNoStream(object.dict[k], id_map)])
      [] object.tag = "Array" ->
            Array([i \in DOMAIN object.items |->
                          UpdateReferencesNoStream(object.items[i], id_map)])
      [] OTHER -> object

RECURSIVE UpdateReferences(_, _)
UpdateReferences(object, id_map) ==
    CASE object.tag = "Reference" ->
            IF object.id \in DOMAIN id_map
            THEN Reference(id_map[object.id]) ELSE object
      [] object.tag = "Dictionary" ->
            Dictionary([k \in DOMAIN object.dict |->
                          UpdateReferences(object.dict[k], id_map)])
      [] object.tag = "Array" ->
            Array([i \in DOMAIN object.items |->
                          UpdateReferences(object.items[i], id_map)])
      [] object.tag = "Stream" ->
            Stream([k \in DOMAIN object.dict |->
                          UpdateReferences(object.dict[k], id_map)],
                   object.content)
      [] OTHER -> object

(***************************************************************************)
(* Source documents.  A loaded Document is its object table and what its   *)
(* page enumeration (Document::get_pages, a BTreeMap from page number to   *)
(* ObjectId) returns: a set of <<page number, ObjectId>> with the numbers  *)
(* 1..n, every id a dictionary of the table.                               *)
(***************************************************************************)
Doc(objects, pages) == [objects |-> objects, pages |-> pages]

PageDict == Dictionary([Type |-> Name("Page")])
PageWithParent(t) == Dictionary([Type |-> Name("Page"), Parent |-> Reference(t)])
CatalogOf(t) == Dictionary([Type |-> Name("Catalog"), Pages |-> Reference(t)])
PagesOf(kids) ==
    Dictionary([Type |-> Name("Pages"),
                Kids |-> Array([i \in DOMAIN kids |-> Reference(kids[i])]),
                Count |-> Integer(Len(kids))])
StreamWith(t) == Stream([Length |-> Reference(t)], "BT ET")
ResourcesOf(t) == Dictionary([Font |-> Dictionary([F1 |-> Reference(t)])])

\* tests::create_minimal_pdf (lib.rs 192-243): Pages 1, Page 2, Font 3,
\* Resources 4, Contents 5, Catalog 6.
MinimalPdf ==
    Doc((<<1, 0>> :> PagesOf(<< <<2, 0>> >>))
     @@ (<<2, 0>> :> Dictionary([Type |-> Name("Page"),
                                 Parent |-> Reference(<<1, 0>>),
                                 Contents |-> Reference(<<5, 0>>),
                                 Resources |-> Reference(<<4, 0>>),
                                 MediaBox |-> Array(<<Integer(0), Integer(0),
                                                      Integer(612), Integer(792)>>)]))
     @@ (<<3, 0>> :> Dictionary([Type |-> Name("Font"),
                                 Subtype |-> Name("Type1"),
                                 BaseFont |-> Name("Helvetica")]))
     @@ (<<4, 0>> :> ResourcesOf(<<3, 0>>))
     @@ (<<5, 0>> :> Stream([Length |-> Integer(36)],
                            "BT /F1 12 Tf 100 700 Td (Test) Tj ET"))
     @@ (<<6, 0>> :> CatalogOf(<<1, 0>>)),
        { <<1, <<2, 0>> >> })

\* Two pages whose page order is not their ObjectId order; one has no Parent.
TwoPagePdf ==
    Doc((<<1, 0>> :> PageWithParent(<<3, 0>>))
     @@ (<<2, 0>> :> PageDict)
     @@ (<<3, 0>> :> PagesOf(<< <<2, 0>>, <<1, 0>> >>)),
        { <<1, <<2, 0>> >>, <<2, <<1, 0>> >> })

\* A catalog over an empty page tree: zero pages.
NoPagePdf ==
    Doc((<<1, 0>> :> CatalogOf(<<2, 0>>))
     @@ (<<2, 0>> :> PagesOf(<< >>)),
        {})

\* One object whose stream dictionary references an object the document
\* does not define.
DanglingPdf ==
    Doc((<<1, 0>> :> StreamWith(<<2, 0>>)), {})

\* Object numbers shared by two generations; the page tree is a cycle.
GenerationPdf ==
    Doc((<<1, 0>> :> PageWithParent(<<1, 1>>))
     @@ (<<1, 1>> :> PagesOf(<< <<1, 0>> >>)),
        { <<1, <<1, 0>> >> })

\* The documents the files of a directory of several files hold.
PlainDocs == {MinimalPdf, TwoPagePdf, NoPagePdf, DanglingPdf, GenerationPdf}

\* The documents of the single-file directories: every object table over a
\* nonempty subset of the ids 1..MaxNum whose objects hold one reference each
\* (in a dictionary, a nested dictionary, an array, a stream dictionary), to an
\* id of 1..MaxNum+1, with every page enumeration over its Page dictionaries.
OldIds == {<<n, 0>> : n \in 1..MaxNum}
RefTargets == OldIds \cup {<<MaxNum + 1, 0>>}
ObjectPool ==
    {PageDict}
    \cup {PageWithParent(t) : t \in RefTargets}
    \cup {CatalogOf(t) : t \in RefTargets}
    \cup {PagesOf(<<t>>) : t \in RefTargets}
    \cup {StreamWith(t) : t \in RefTargets}
    \cup {ResourcesOf(t) : t \in RefTargets}

IsPageDict(object) ==
    /\ object.tag = "Dictionary"
    /\ "Type" \in DOMAIN object.dict
    /\ object.dict["Type"] = Name("Page")

\* Every sequence without repetition over a subset of S.
Arrangements(S) ==
    UNION {{s \in [1..n -> S] : \A i, j \in 1..n : i # j => s[i] # s[j]}
           : n \in 0..Cardinality(S)}

PageEnumerations(objects) ==
    {{<<i, s[i]>> : i \in DOMAIN s}
     : s \in Arrangements({o \in DOMAIN objects : IsPageDict(objects[o])})}

GeneratedDocs ==
    UNION {UNION {{Doc(f, p) : p \in PageEnumerations(f)} : f \in [K -> ObjectPool]}
           : K \in (SUBSET OldIds) \ {{}}}

(***************************************************************************)
(* The directory merge_pdfs is given.  A file is its extension, its        *)
(* modification time (0 is UNIX_EPOCH, which a file whose metadata cannot  *)
(* be read also sorts as, lib.rs 47-49) and what Document::load returns.   *)
(***************************************************************************)
Mtimes == {0, 1, 2}
File(ext, mtime, loads, doc) ==
    [ext |-> ext, mtime |-> mtime, loads |-> loads, doc |-> doc]
NoDoc == Doc(EmptyFcn, {})

PlainFiles ==
    {File("pdf", t, TRUE, d) : t \in Mtimes, d \in PlainDocs}
    \cup {File("txt", 1, FALSE, NoDoc), File("pdf", 1, FALSE, NoDoc)}

Directory(is_dir, read_ok, has_name, entries) ==
    [is_dir |-> is_dir, read_ok |-> read_ok, has_name |-> has_name,
     entries |-> entries]

Directories ==
    \* directories of up to MaxFiles files, in read_dir order
    {Directory(TRUE, TRUE, TRUE, e)
       : e \in UNION {[1..n -> PlainFiles] : n \in 0..MaxFiles}}
    \* directories of one generated document
    \cup {Directory(TRUE, TRUE, TRUE, <<File("pdf", 1, TRUE, d)>>)
            : d \in GeneratedDocs}
    \* a path that is no directory, a directory that cannot be read, and a
    \* directory path without a final component ("/", ".", "x/..")
    \cup {Directory(FALSE, FALSE, TRUE, << >>),
          Directory(TRUE, FALSE, TRUE, << >>),
          Directory(TRUE, TRUE, FALSE, <<File("pdf", 1, TRUE, MinimalPdf)>>)}

(***************************************************************************)
(* The state of one merge_pdfs call, and of one update_references call.    *)
(***************************************************************************)
VARIABLES
    dir,           \* the directory at dir_path
    pc,            \* the statement merge_pdfs is at
    pdf_files,     \* lib.rs 32
    documents,     \* lib.rs 56
    merged_doc,    \* lib.rs 65
    max_id,        \* lib.rs 66
    id_maps,       \* lib.rs 67
    all_page_ids,  \* lib.rs 92
    pages_id,      \* lib.rs 106
    catalog_id,    \* lib.rs 128
    result,        \* what merge_pdfs returned
    out_file,      \* the file at output_path
    ur             \* one call of update_references: its arguments and result

vars == <<dir, pc, pdf_files, documents, merged_doc, max_id, id_maps,
          all_page_ids, pages_id, catalog_id, result, out_file, ur>>

locals == <<pdf_files, documents, merged_doc, max_id, id_maps,
            all_page_ids, pages_id, catalog_id>>

NoId == <<0, 0>>
NoResult == [kind |-> "None", text |-> ""]
Ok(text) == [kind |-> "Ok", text |-> text]
Err(text) == [kind |-> "Err", text |-> text]
NoCall == [state |-> "none", object |-> Null, id_map |-> EmptyFcn, out |-> Null]

\* Document::with_version("1.5") (lib.rs 65): no object, an empty trailer.
NewDocument ==
    [version |-> "1.5", objects |-> EmptyFcn, trailer |-> EmptyFcn, max_id |-> 0]

Init ==
    /\ dir \in Directories
    /\ pc = "check_dir"
    /\ pdf_files = << >>
    /\ documents = << >>
    /\ merged_doc = NewDocument
    /\ max_id = 1
    /\ id_maps = << >>
    /\ all_page_ids = << >>
    /\ pages_id = NoId
    /\ catalog_id = NoId
    /\ result = NoResult
    /\ out_file = "absent"
    /\ ur = NoCall

Return(r) ==
    /\ pc' = "done"
    /\ result' = r

(***************************************************************************)
(* lib.rs 27-30: the path must be a directory.                             *)
(***************************************************************************)
CheckDir ==
    /\ pc = "check_dir"
    /\ IF ~dir.is_dir
       THEN Return(Err("Directory does not exist."))
       ELSE pc' = "read_dir" /\ UNCHANGED result
    /\ UNCHANGED <<dir, locals, out_file, ur>>

(***************************************************************************)
(* lib.rs 32-43: the entries with extension "pdf"; none is an error.       *)
(***************************************************************************)
FilterPdf(entries) == SelectSeq(entries, LAMBDA f : f.ext = "pdf")

ReadDir ==
    /\ pc = "read_dir"
    /\ IF ~dir.read_ok
       THEN /\ Return(Err("Failed to read directory"))
            /\ UNCHANGED pdf_files
       ELSE /\ pdf_files' = FilterPdf(dir.entries)
            /\ IF pdf_files' = << >>
               THEN Return(Err("No PDF files found in the directory."))
               ELSE pc' = "sort" /\ UNCHANGED result
    /\ UNCHANGED <<dir, documents, merged_doc, max_id, id_maps, all_page_ids,
                   pages_id, catalog_id, out_file, ur>>

(***************************************************************************)
(* lib.rs 45-50: sort_by_key on the modification time, a stable sort.      *)
(***************************************************************************)
InsertByKey(sorted, f) ==
    LET n == Cardinality({i \in 1..Len(sorted) : sorted[i].mtime <= f.mtime})
    IN  SubSeq(sorted, 1, n) \o <<f>> \o SubSeq(sorted, n + 1, Len(sorted))

RECURSIVE SortFrom(_, _)
SortFrom(sorted, rest) ==
    IF rest = << >> THEN sorted
    ELSE SortFrom(InsertByKey(sorted, Head(rest)), Tail(rest))

SortUnsorted(files) == files

SortByModified(files) == SortFrom(<< >>, files)

SortFiles ==
    /\ pc = "sort"
    /\ pdf_files' = SortByModified(pdf_files)
    /\ pc' = "output_path"
    /\ UNCHANGED <<dir, documents, merged_doc, max_id, id_maps, all_page_ids,
                   pages_id, catalog_id, result, out_file, ur>>

(***************************************************************************)
(* lib.rs 52-53: <parent>/<directory name>.pdf.  file_name() and parent()  *)
(* are unwrapped: a path without a final component panics.                 *)
(***************************************************************************)
OutputPath ==
    /\ pc = "output_path"
    /\ pc' = IF dir.has_name THEN "load" ELSE "panicked"
    /\ UNCHANGED <<dir, locals, result, out_file, ur>>

(***************************************************************************)
(* lib.rs 55-67: every file is loaded, the first failure is returned;      *)
(* then the merged document and the allocator are created.                 *)
(***************************************************************************)
LoadDocuments ==
    /\ pc = "load"
    /\ IF \E i \in DOMAIN pdf_files : ~pdf_files[i].loads
       THEN /\ Return(Err("Failed to load PDF"))
            /\ UNCHANGED <<documents, merged_doc, max_id, id_maps>>
       ELSE /\ documents' = [i \in DOMAIN pdf_files |-> pdf_files[i].doc]
            /\ merged_doc' = NewDocument
            /\ max_id' = 1
            /\ id_maps' = << >>
            /\ pc' = "copy"
            /\ UNCHANGED result
    /\ UNCHANGED <<dir, pdf_files, all_page_ids, pages_id, catalog_id,
                   out_file, ur>>

(***************************************************************************)
(* lib.rs 70-89, one iteration: the document's id map is allocated in full *)
(* (74-78), then every object is copied with its references rewritten      *)
(* (81-86).                                                                *)
(***************************************************************************)
RECURSIVE AllocLoop(_, _, _)
AllocLoop(keys, id_map, next) ==
    IF keys = << >> THEN [id_map |-> id_map, max_id |-> next]
    ELSE AllocLoop(Tail(keys), Insert(id_map, Head(keys), <<next, 0>>), next + 1)

AllocateIdsReset(doc, next) ==
    AllocLoop(SortedKeys(DOMAIN doc.objects), EmptyFcn, 1)

AllocateIds(doc, next) ==
    AllocLoop(SortedKeys(DOMAIN doc.objects), EmptyFcn, next)

RECURSIVE CopyLoopSinglePass(_, _, _, _)
CopyLoopSinglePass(keys, doc, id_map, objects) ==
    IF keys = << >> THEN objects
    ELSE LET old_id == Head(keys)
             later == {Tail(keys)[i] : i \in DOMAIN Tail(keys)}
             so_far == [k \in DOMAIN id_map \ later |-> id_map[k]]
             obj == UpdateReferences(doc.objects[old_id], so_far)
         IN  CopyLoopSinglePass(Tail(keys), doc, id_map,
                                Insert(objects, id_map[old_id], obj))

RECURSIVE CopyLoop(_, _, _, _)
CopyLoop(keys, doc, id_map, objects) ==
    IF keys = << >> THEN objects
    ELSE LET old_id == Head(keys)
             obj == UpdateReferences(doc.objects[old_id], id_map)
         IN  CopyLoop(Tail(keys), doc, id_map,
                      Insert(objects, id_map[old_id], obj))

CopyDocument ==
    /\ pc = "copy"
    /\ LET doc == documents[Len(id_maps) + 1]
           alloc == AllocateIds(doc, max_id)
       IN  /\ max_id' = alloc.max_id
           /\ merged_doc' =
                [merged_doc EXCEPT !.objects =
                    CopyLoop(SortedKeys(DOMAIN doc.objects), doc,
                             alloc.id_map, @)]
           /\ id_maps' = Append(id_maps, alloc.id_map)
    /\ pc' = IF Len(id_maps') = Len(documents) THEN "collect_pages" ELSE "copy"
    /\ UNCHANGED <<dir, pdf_files, documents, all_page_ids, pages_id,
                   catalog_id, result, out_file, ur>>

(***************************************************************************)
(* lib.rs 91-103: each document's pages, sorted by page number, translated *)
(* through the document's id map; a page without a mapping is left out.    *)
(***************************************************************************)
RECURSIVE SortPages(_)
SortPages(pages) ==
    IF pages = {} THEN << >>
    ELSE LET m == CHOOSE p \in pages : \A q \in pages : p[1] <= q[1]
         IN  <<m>> \o SortPages(pages \ {m})

RECURSIVE PushPages(_, _, _)
PushPages(page_list, id_map, ids) ==
    IF page_list = << >> THEN ids
    ELSE LET old_page_id == Head(page_list)[2]
         IN  PushPages(Tail(page_list), id_map,
                       IF old_page_id \in DOMAIN id_map
                       THEN Append(ids, id_map[old_page_id]) ELSE ids)

RECURSIVE CollectFromFirstMap(_, _)
CollectFromFirstMap(doc_idx, ids) ==
    IF doc_idx > Len(documents) THEN ids
    ELSE CollectFromFirstMap(doc_idx + 1,
                             PushPages(SortPages(documents[doc_idx].pages),
                                       id_maps[1], ids))

RECURSIVE CollectFrom(_, _)
CollectFrom(doc_idx, ids) ==
    IF doc_idx > Len(documents) THEN ids
    ELSE CollectFrom(doc_idx + 1,
                     PushPages(SortPages(documents[doc_idx].pages),
                               id_maps[doc_idx], ids))

CollectPages ==
    /\ pc = "collect_pages"
    /\ all_page_ids' = CollectFrom(1, << >>)
    /\ pc' = "page_tree"
    /\ UNCHANGED <<dir, pdf_files, documents, merged_doc, max_id, id_maps,
                   pages_id, catalog_id, result, out_file, ur>>

(***************************************************************************)
(* lib.rs 105-118: the Pages node.                                         *)
(***************************************************************************)
PagesDict(page_ids) ==
    Dictionary(
        Insert(Insert(Insert(EmptyFcn,
            "Type", Name("Pages")),
            "Kids", Array([i \in DOMAIN page_ids |-> Reference(page_ids[i])])),
            "Count", Integer(Len(page_ids))))

CreatePageTree ==
    /\ pc = "page_tree"
    /\ pages_id' = <<max_id, 0>>
    /\ max_id' = max_id + 1
    /\ merged_doc' = [merged_doc EXCEPT !.objects =
                         Insert(@, pages_id', PagesDict(all_page_ids))]
    /\ pc' = "parents"
    /\ UNCHANGED <<dir, pdf_files, documents, id_maps, all_page_ids,
                   catalog_id, result, out_file, ur>>

(***************************************************************************)
(* lib.rs 120-125: every page dictionary's Parent is set to the Pages node.*)
(***************************************************************************)
SetParentIfAbsent(object, parent) ==
    IF object.tag = "Dictionary" /\ "Parent" \notin DOMAIN object.dict
    THEN Dictionary(Insert(object.dict, "Parent", Reference(parent)))
    ELSE object

SetParent(object, parent) ==
    IF object.tag = "Dictionary"
    THEN Dictionary(Insert(object.dict, "Parent", Reference(parent)))
    ELSE object

RECURSIVE ParentLoop(_, _, _)
ParentLoop(page_ids, objects, parent) ==
    IF page_ids = << >> THEN objects
    ELSE LET page_id == Head(page_ids)
         IN  ParentLoop(Tail(page_ids),
                        IF page_id \in DOMAIN objects
                        THEN [objects EXCEPT ![page_id] = SetParent(@, parent)]
                        ELSE objects,
                        parent)

UpdateParents ==
    /\ pc = "parents"
    /\ merged_doc' = [merged_doc EXCEPT !.objects =
                         ParentLoop(all_page_ids, @, pages_id)]
    /\ pc' = "catalog"
    /\ UNCHANGED <<dir, pdf_files, documents, max_id, id_maps, all_page_ids,
                   pages_id, catalog_id, result, out_file, ur>>

(***************************************************************************)
(* lib.rs 127-135: the Catalog.                                            *)
(***************************************************************************)
CatalogDictUntyped(pages) ==
    Dictionary(Insert(EmptyFcn, "Pages", Reference(pages)))

CatalogDict(pages) ==
    Dictionary(Insert(Insert(EmptyFcn,
        "Type", Name("Catalog")),
        "Pages", Reference(pages)))

CreateCatalog ==
    /\ pc = "catalog"
    /\ catalog_id' = <<max_id, 0>>
    /\ max_id' = max_id + 1
    /\ merged_doc' = [merged_doc EXCEPT !.objects =
                         Insert(@, catalog_id', CatalogDict(pages_id))]
    /\ pc' = "trailer"
    /\ UNCHANGED <<dir, pdf_files, documents, id_maps, all_page_ids, pages_id,
                   result, out_file, ur>>

(***************************************************************************)
(* lib.rs 137-139: the trailer's Root and the document's max_id.           *)
(***************************************************************************)
FinalizedLastId(doc, root, next) ==
    [doc EXCEPT !.trailer = Insert(@, "Root", Reference(root)),
                !.max_id = next - 1]

Finalized(doc, root, next) ==
    [doc EXCEPT !.trailer = Insert(@, "Root", Reference(root)),
                !.max_id = next]

SetTrailer ==
    /\ pc = "trailer"
    /\ merged_doc' = Finalized(merged_doc, catalog_id, max_id)
    /\ pc' = "save"
    /\ UNCHANGED <<dir, pdf_files, documents, max_id, id_maps, all_page_ids,
                   pages_id, catalog_id, result, out_file, ur>>

(***************************************************************************)
(* lib.rs 141-145: Document::save creates the file at output_path and      *)
(* writes the document into it.  It fails before the file exists (the      *)
(* create fails) or after (a write fails, leaving what was written).       *)
(***************************************************************************)
SaveOutcomes == {"saved", "create_failed", "write_failed"}

Save ==
    /\ pc = "save"
    /\ \E outcome \in SaveOutcomes :
         /\ out_file' = CASE outcome = "saved" -> "complete"
                          [] outcome = "create_failed" -> out_file
                          [] outcome = "write_failed" -> "truncated"
         /\ Return(IF outcome = "saved" THEN Ok("output_path")
                   ELSE Err("Failed to save merged PDF"))
    /\ UNCHANGED <<dir, locals, ur>>

(***************************************************************************)
(* One call of update_references on its own (lib.rs 148-172).              *)
(***************************************************************************)
Leaves ==
    {Null, Boolean(TRUE), Integer(7), Real(3), String("s"), Name("N")}
    \cup {Reference(t) : t \in RefTargets}

RECURSIVE ObjectsTo(_)
ObjectsTo(depth) ==
    IF depth = 0 THEN Leaves
    ELSE LET inner == ObjectsTo(depth - 1)
         IN  Leaves
             \cup {Array(<< >>)}
             \cup {Array(<<o>>) : o \in inner}
             \cup {Array(<<Integer(7), o>>) : o \in inner}
             \cup {Dictionary([K |-> o, Type |-> Name("N")]) : o \in inner}
             \cup {Stream([K |-> o], "payload") : o \in inner}

\* An IDMap: some of the ids 1..MaxNum, each mapped to a fresh id (n, 0).
IdMaps ==
    UNION {[K -> {<<n, 0>> : n \in 2..(MaxNum + 1)}] : K \in SUBSET OldIds}

InitUR ==
    /\ dir = Directory(FALSE, FALSE, TRUE, << >>)
    /\ pc = "update_references"
    /\ pdf_files = << >>
    /\ documents = << >>
    /\ merged_doc = NewDocument
    /\ max_id = 1
    /\ id_maps = << >>
    /\ all_page_ids = << >>
    /\ pages_id = NoId
    /\ catalog_id = NoId
    /\ result = NoResult
    /\ out_file = "absent"
    /\ \E object \in ObjectsTo(MaxDepth), id_map \in IdMaps :
          ur = [state |-> "called", object |-> object, id_map |-> id_map,
                out |-> Null]

UpdateReferencesCall ==
    /\ pc = "update_references"
    /\ ur.state = "called"
    /\ ur' = [ur EXCEPT !.state = "returned",
                        !.out = UpdateReferences(ur.object, ur.id_map)]
    /\ UNCHANGED <<dir, pc, locals, result, out_file>>

Next ==
    \/ CheckDir
    \/ ReadDir
    \/ SortFiles
    \/ OutputPath
    \/ LoadDocuments
    \/ CopyDocument
    \/ CollectPages
    \/ CreatePageTree
    \/ UpdateParents
    \/ CreateCatalog
    \/ SetTrailer
    \/ Save

Spec == Init /\ [][Next]_vars

NextUR == UpdateReferencesCall

SpecUR == InitUR /\ [][NextUR]_vars

(***************************************************************************)
(* Vocabulary of the properties.                                           *)
(***************************************************************************)
\* merge_pdfs has returned Ok: the merged document is complete.
Merged == pc = "done" /\ result.kind = "Ok"

MergedObjects == merged_doc.objects

Range(f) == {f[a] : a \in DOMAIN f}

RECURSIVE SumTo(_, _)
SumTo(n, f) == IF n = 0 THEN 0 ELSE f[n] + SumTo(n - 1, f)

\* The number of objects, and of pages, of all source documents.
TotalObjects ==
    SumTo(Len(documents),
          [d \in DOMAIN documents |-> Cardinality(DOMAIN documents[d].objects)])
TotalPages ==
    SumTo(Len(documents),
          [d \in DOMAIN documents |-> Cardinality(documents[d].pages)])

\* The ObjectIds the References inside an object name, at any depth.
RECURSIVE RefIds(_)
RefIds(object) ==
    CASE object.tag = "Reference" -> {object.id}
      [] object.tag \in {"Dictionary", "Stream"} ->
            UNION {RefIds(object.dict[k]) : k \in DOMAIN object.dict}
      [] object.tag = "Array" ->
            UNION {RefIds(object.items[i]) : i \in DOMAIN object.items}
      [] OTHER -> {}

\* A dictionary entry removed.
Without(object, key) ==
    IF object.tag = "Dictionary"
    THEN Dictionary([k \in DOMAIN object.dict \ {key} |-> object.dict[k]])
    ELSE object

\* Every Reference of src stands at the same place in dst and names what the
\* map makes of its ObjectId.
RECURSIVE Follows(_, _, _)
Follows(src, dst, m) ==
    CASE src.tag = "Reference" ->
            /\ dst.tag = "Reference"
            /\ src.id \in DOMAIN m
            /\ dst.id = m[src.id]
      [] src.tag \in {"Dictionary", "Stream"} ->
            /\ dst.tag = src.tag
            /\ \A k \in DOMAIN src.dict :
                  k \in DOMAIN dst.dict /\ Follows(src.dict[k], dst.dict[k], m)
      [] src.tag = "Array" ->
            /\ dst.tag = "Array"
            /\ \A i \in DOMAIN src.items :
                  i \in DOMAIN dst.items /\ Follows(src.items[i], dst.items[i], m)
      [] OTHER -> TRUE

\* Every Reference of every source document resolves in its own document.
Closed(doc) ==
    \A o \in DOMAIN doc.objects : RefIds(doc.objects[o]) \subseteq DOMAIN doc.objects
AllClosed == \A d \in DOMAIN documents : Closed(documents[d])

IsTyped(object, type) ==
    /\ object.tag = "Dictionary"
    /\ "Type" \in DOMAIN object.dict
    /\ object.dict["Type"] = Name(type)

\* The Kids array of the synthesized Pages node.
Kids == MergedObjects[pages_id].dict["Kids"].items

\* The copies that were enumerated as pages.
MigratedPages == {all_page_ids[i] : i \in DOMAIN all_page_ids}

\* The source objects: <<document index, old ObjectId>>.
SourceObjects ==
    UNION {{<<d, o>> : o \in DOMAIN documents[d].objects} : d \in DOMAIN documents}

(***************************************************************************)
(* C1.  The allocator hands out (1,0), (2,0), ... one by one and is never  *)
(* reset: at every moment the merged table's keys are exactly the ids      *)
(* handed out so far, and after the merge the map from (document, old id)  *)
(* to new id is injective, the Pages and Catalog ids are no copy's id, and *)
(* the table has (number of source objects) + 2 entries.                   *)
(***************************************************************************)
C1_FreshIds ==
    /\ DOMAIN MergedObjects = {<<n, 0>> : n \in 1..(max_id - 1)}
    /\ Merged =>
         /\ \A a, b \in SourceObjects :
               a # b => id_maps[a[1]][a[2]] # id_maps[b[1]][b[2]]
         /\ \A a \in SourceObjects :
               /\ id_maps[a[1]][a[2]] \in DOMAIN MergedObjects
               /\ id_maps[a[1]][a[2]] \notin {pages_id, catalog_id}
         /\ pages_id # catalog_id
         /\ Cardinality(DOMAIN MergedObjects) = TotalObjects + 2

\* Two documents that use the same ObjectId have been merged.
C1_Witness ==
    /\ Merged
    /\ Len(documents) = 2
    /\ DOMAIN documents[1].objects \cap DOMAIN documents[2].objects # {}

(***************************************************************************)
(* C2.  When every Reference of every source document resolves inside its  *)
(* own document, every Reference of the merged table and of the trailer    *)
(* resolves in the merged table, and every Reference of a source object    *)
(* names, in the copy, the copy of the object it named.                    *)
(***************************************************************************)
NoDanglingReference ==
    /\ \A id \in DOMAIN MergedObjects :
          RefIds(MergedObjects[id]) \subseteq DOMAIN MergedObjects
    /\ RefIds(Dictionary(merged_doc.trailer)) \subseteq DOMAIN MergedObjects

\* C2 as stated, no Reference excepted: every Reference of a source object
\* names, in the copy, the copy of the object it named.
C2_AsClaimed ==
    (Merged /\ AllClosed) =>
        /\ NoDanglingReference
        /\ \A a \in SourceObjects :
              Follows(documents[a[1]].objects[a[2]],
                      MergedObjects[id_maps[a[1]][a[2]]], id_maps[a[1]])

\* C2, amended: in a merge of documents whose References all resolve in
\* their own document, no Reference of the merged table or trailer dangles,
\* and every Reference of a source object names, in the copy, the copy of the
\* object it named, except the Parent entry of a migrated page, which names
\* the synthesized Pages node.
C2_ReferencesResolve ==
    (Merged /\ AllClosed) =>
        /\ NoDanglingReference
        /\ \A a \in SourceObjects :
              LET src == documents[a[1]].objects[a[2]]
                  new_id == id_maps[a[1]][a[2]]
              IN  IF new_id \in MigratedPages
                  THEN /\ Follows(Without(src, "Parent"),
                                  MergedObjects[new_id], id_maps[a[1]])
                       /\ MergedObjects[new_id].dict["Parent"] = Reference(pages_id)
                  ELSE Follows(src, MergedObjects[new_id], id_maps[a[1]])

\* The second of two closed documents holds a reference to a later object
\* of its own (a forward reference), which the merge renumbered.
C2_Witness ==
    /\ Merged
    /\ AllClosed
    /\ Len(documents) = 2
    /\ \E o \in DOMAIN documents[2].objects :
          \E t \in RefIds(documents[2].objects[o]) :
             IdLess(o, t) /\ id_maps[2][t] # t

(***************************************************************************)
(* C3.  The Kids array of the one synthesized Pages node has one Reference *)
(* per source page, sum of the page counts in all, and Count is its        *)
(* length.                                                                 *)
(***************************************************************************)
C3_PageCount ==
    Merged =>
        /\ IsTyped(MergedObjects[pages_id], "Pages")
        /\ Len(Kids) = TotalPages
        /\ Len(all_page_ids) = TotalPages
        /\ MergedObjects[pages_id].dict["Count"] = Integer(Len(Kids))
        /\ \A d \in DOMAIN documents : \A p \in documents[d].pages :
              \E i \in DOMAIN Kids : Kids[i] = Reference(id_maps[d][p[2]])

\* Two documents have been merged, the first without a page, the second
\* with two.
C3_Witness ==
    /\ Merged
    /\ Len(documents) = 2
    /\ documents[1].pages = {}
    /\ Cardinality(documents[2].pages) = 2

(***************************************************************************)
(* C4.  Kids lists the pages document by document, the documents in        *)
(* ascending modification time of their files, each document's pages in    *)
(* ascending page number, each translated through its own document's map.  *)
(***************************************************************************)
\* The <<document index, page number>> a merged page id comes from.
PageOrigins(id) ==
    UNION {{<<d, p[1]>> : p \in {q \in documents[d].pages : id_maps[d][q[2]] = id}}
           : d \in DOMAIN documents}

\* seq is a rearrangement of the sequence of the same length other.
IsPermutation(seq, other) ==
    /\ Len(seq) = Len(other)
    /\ \E f \in [DOMAIN seq -> DOMAIN seq] :
          /\ \A i, j \in DOMAIN seq : i # j => f[i] # f[j]
          /\ \A i \in DOMAIN seq : seq[i] = other[f[i]]

C4_PageOrder ==
    Merged =>
        \* the documents are the directory's pdf files in ascending mtime
        /\ IsPermutation(pdf_files, SelectSeq(dir.entries, LAMBDA f : f.ext = "pdf"))
        /\ \A i, j \in DOMAIN pdf_files : i < j => pdf_files[i].mtime <= pdf_files[j].mtime
        /\ documents = [i \in DOMAIN pdf_files |-> pdf_files[i].doc]
        \* every kid is a page, and every page is a kid
        /\ \A i \in DOMAIN Kids :
              Kids[i].tag = "Reference" /\ PageOrigins(Kids[i].id) # {}
        /\ \A d \in DOMAIN documents : \A p \in documents[d].pages :
              \E i \in DOMAIN Kids : <<d, p[1]>> \in PageOrigins(Kids[i].id)
        \* in document order, then in page order
        /\ \A i, j \in DOMAIN Kids : i < j =>
              \A a \in PageOrigins(Kids[i].id), b \in PageOrigins(Kids[j].id) :
                 a[1] < b[1] \/ (a[1] = b[1] /\ a[2] < b[2])

\* The directory lists the newer file first, and the older file's document
\* has two pages whose page order is not their ObjectId order.
C4_Witness ==
    /\ Merged
    /\ Len(dir.entries) = 2
    /\ Len(documents) = 2
    /\ dir.entries[1].mtime > dir.entries[2].mtime
    /\ dir.entries[1].doc.pages # {}
    /\ dir.entries[2].doc = TwoPagePdf

(***************************************************************************)
(* C5.  The Catalog and Pages dictionaries of the merged table.            *)
(***************************************************************************)
TypedIn(objects, type) == {id \in DOMAIN objects : IsTyped(objects[id], type)}

\* The ids of the copies of source objects.
Copies == UNION {Range(id_maps[d]) : d \in DOMAIN id_maps}

SourceTyped(type) ==
    SumTo(Len(documents),
          [d \in DOMAIN documents |-> Cardinality(TypedIn(documents[d].objects, type))])

\* C5 as stated: the merged table holds exactly one Catalog and exactly one
\* Pages dictionary.
C5_AsClaimed ==
    Merged =>
        /\ Cardinality(TypedIn(MergedObjects, "Catalog")) = 1
        /\ Cardinality(TypedIn(MergedObjects, "Pages")) = 1

\* C5, amended: the merge adds exactly one Catalog and one Pages dictionary
\* to the copies of those of the source documents: the merged table holds
\* one more of each than the source documents together, and the synthesized
\* ones are the only ones that are no copy.
C5_OneSynthesized ==
    Merged =>
        /\ Cardinality(TypedIn(MergedObjects, "Catalog")) = 1 + SourceTyped("Catalog")
        /\ Cardinality(TypedIn(MergedObjects, "Pages")) = 1 + SourceTyped("Pages")
        /\ TypedIn(MergedObjects, "Catalog") \ Copies = {catalog_id}
        /\ TypedIn(MergedObjects, "Pages") \ Copies = {pages_id}

\* Two documents with a Catalog each have been merged.
C5_Witness ==
    /\ Merged
    /\ Len(documents) = 2
    /\ \A d \in DOMAIN documents : TypedIn(documents[d].objects, "Catalog") # {}

(***************************************************************************)
(* C6.  Every migrated page is a dictionary whose Parent is a Reference to *)
(* the synthesized Pages node.                                             *)
(***************************************************************************)
C6_ParentIsPagesNode ==
    Merged =>
        \A i \in DOMAIN Kids :
           /\ Kids[i].id \in DOMAIN MergedObjects
           /\ MergedObjects[Kids[i].id].tag = "Dictionary"
           /\ "Parent" \in DOMAIN MergedObjects[Kids[i].id].dict
           /\ MergedObjects[Kids[i].id].dict["Parent"] = Reference(pages_id)

\* A page whose Parent named an object of its document, and a page without
\* a Parent, have both been migrated.
C6_Witness ==
    /\ Merged
    /\ \E d \in DOMAIN documents : \E p, q \in documents[d].pages :
          /\ "Parent" \notin DOMAIN documents[d].objects[p[2]].dict
          /\ "Parent" \in DOMAIN documents[d].objects[q[2]].dict
          /\ documents[d].objects[q[2]].dict["Parent"].id \in DOMAIN documents[d].objects

(***************************************************************************)
(* C7 as stated: an error leaves no file at the output path, a success     *)
(* leaves the complete merged file.                                        *)
(***************************************************************************)
C7_AsClaimed ==
    /\ (pc = "done" /\ result.kind = "Err") => out_file = "absent"
    /\ (pc = "done" /\ result.kind = "Ok") => out_file = "complete"

(***************************************************************************)
(* C8.  After a successful merge the trailer holds Root alone, a Reference *)
(* to the Catalog; the Catalog's Pages is a Reference to the Pages node;   *)
(* both are in the table under the last two ids allocated, Pages first;    *)
(* the document's max_id is the allocator's final value.                   *)
(***************************************************************************)
C8_Finalized ==
    Merged =>
        /\ DOMAIN merged_doc.trailer = {"Root"}
        /\ merged_doc.trailer["Root"] = Reference(catalog_id)
        /\ catalog_id \in DOMAIN MergedObjects
        /\ IsTyped(MergedObjects[catalog_id], "Catalog")
        /\ DOMAIN MergedObjects[catalog_id].dict = {"Type", "Pages"}
        /\ MergedObjects[catalog_id].dict["Pages"] = Reference(pages_id)
        /\ pages_id \in DOMAIN MergedObjects
        /\ pages_id = <<TotalObjects + 1, 0>>
        /\ catalog_id = <<TotalObjects + 2, 0>>
        /\ max_id = TotalObjects + 3
        /\ merged_doc.max_id = max_id

\* Two documents have been merged and saved.
C8_Witness ==
    /\ Merged
    /\ out_file = "complete"
    /\ Len(documents) = 2
    /\ TotalObjects > 2

(***************************************************************************)
(* C9.  update_references relabels and changes nothing else: the result    *)
(* has the variant, the keys and the lengths of the argument at every      *)
(* depth, a Reference names the map's value for its id, or its id when the *)
(* map has none, and every other leaf and a stream's content are the same. *)
(***************************************************************************)
RECURSIVE Relabels(_, _, _)
Relabels(a, b, m) ==
    /\ DOMAIN b = DOMAIN a
    /\ b.tag = a.tag
    /\ CASE a.tag = "Reference" ->
               b.id = IF a.id \in DOMAIN m THEN m[a.id] ELSE a.id
         [] a.tag = "Dictionary" ->
               /\ DOMAIN b.dict = DOMAIN a.dict
               /\ \A k \in DOMAIN a.dict : Relabels(a.dict[k], b.dict[k], m)
         [] a.tag = "Stream" ->
               /\ b.content = a.content
               /\ DOMAIN b.dict = DOMAIN a.dict
               /\ \A k \in DOMAIN a.dict : Relabels(a.dict[k], b.dict[k], m)
         [] a.tag = "Array" ->
               /\ DOMAIN b.items = DOMAIN a.items
               /\ \A i \in DOMAIN a.items : Relabels(a.items[i], b.items[i], m)
         [] OTHER -> b = a

C9_Relabels ==
    ur.state = "returned" => Relabels(ur.object, ur.out, ur.id_map)

\* A stream whose dictionary holds, inside an array, a Reference the map
\* renames, has been rewritten.
C9_Witness ==
    /\ ur.state = "returned"
    /\ ur.object.tag = "Stream"
    /\ ur.object.dict["K"].tag = "Array"
    /\ RefIds(ur.object) \cap DOMAIN ur.id_map # {}
    /\ ur.out # ur.object
    /\ ur.out.content = ur.object.content

(***************************************************************************)
(* C10 as stated: but for the Parent of a migrated page, a Reference       *)
(* inside the copy of an object of one document resolves, if at all, to a  *)
(* copy of an object of the same document, and a Reference that resolved   *)
(* nowhere in its document resolves nowhere in the merged table.           *)
(***************************************************************************)
C10_AsClaimed ==
    Merged =>
        \A a \in SourceObjects :
           LET src == documents[a[1]].objects[a[2]]
               new_id == id_maps[a[1]][a[2]]
               copy == IF new_id \in MigratedPages
                       THEN Without(MergedObjects[new_id], "Parent")
                       ELSE MergedObjects[new_id]
           IN  /\ \A t \in RefIds(copy) \cap DOMAIN MergedObjects :
                     t \in Range(id_maps[a[1]])
               /\ \A t \in RefIds(src) \ DOMAIN documents[a[1]].objects :
                     t \notin DOMAIN MergedObjects

=============================================================================
